---- MODULE Spec2Model ----
(***************************************************************************)
(* State-machine model of the settings persistence of the two settings     *)
(* panels of zimo-suite:                                                   *)
(*   - VpuPanel    (src/zimo/modules/vpu/panel.py), vpu_settings.json and  *)
(*     the presets directory, together with the mock ApiClient;            *)
(*   - CameraPanel (src/zimo/modules/camera/panel.py), camera_settings.json*)
(*                                                                         *)
(* Python values are dynamically typed, so a value read from JSON is kept  *)
(* as a tagged record: [t |-> "obj", m |-> <map>], [t |-> "arr", n |-> len]*)
(* [t |-> "str", v |-> s], [t |-> "int", v |-> i], [t |-> "bool", v |-> b],*)
(* [t |-> "null"].  A settings object is kept flattened: its map goes from *)
(* the path of a leaf ("exposure.value", "advanced.sensor.roi.x") to the   *)
(* leaf's value; a nested dict that is missing is a dict none of whose     *)
(* leaves is present, which is how the code reads it                       *)
(* (settings.get("exposure", {}).get("value", ...)).                       *)
(* json.dumps followed by json.loads maps such a value (string keys, JSON  *)
(* scalars) to an equal value, so a file that holds JSON is its document.  *)
(* The sign in "1280 x 720" is U+00D7 in the source.                       *)
(***************************************************************************)
EXTENDS Integers, Sequences, FiniteSets, TLC

VARIABLES
    vpu,          \* the VpuPanel object (fields below)
    vpu_file,     \* vpu_settings.json
    vpu_writes,   \* number of write_text calls made on vpu_settings.json
    presets,      \* presets/: preset stem -> file content
    preset_writes,\* number of write_text calls made in presets/
    api,          \* the ApiClient object
    cam,          \* the CameraPanel object
    cam_file,     \* ~/.zimo/camera_settings.json
    cam_writes,   \* number of write_text calls made on camera_settings.json
    cam_found,    \* camera_settings.json as the panel found it when it was built
    op,           \* the handler that ran last
    ops           \* number of user operations so far

vars == <<vpu, vpu_file, vpu_writes, presets, preset_writes, api,
          cam, cam_file, cam_writes, cam_found, op, ops>>

(***************************************************************************)
(* Bounds and program constants                                            *)
(***************************************************************************)
\* the user operations of one run (clicks, edits, renames, restarts)
MaxOps == 3

NumCameras == 8

(***************************************************************************)
(* Python / JSON values                                                    *)
(***************************************************************************)
EmptyMap == [k \in {} |-> 0]

JObj(m) == [t |-> "obj", m |-> m]

JArr(n) == [t |-> "arr", n |-> n]

JStr(s) == [t |-> "str", v |-> s]

JInt(i) == [t |-> "int", v |-> i]

JBool(b) == [t |-> "bool", v |-> b]

JNull == [t |-> "null"]

\* isinstance(x, dict)
IsDict(x) == x.t = "obj"

\* Python truthiness, as used by `if not settings`
Truthy(x) ==
    CASE x.t = "obj" -> DOMAIN x.m # {}
      [] x.t = "arr" -> x.n > 0
      [] x.t = "str" -> x.v # ""
      [] x.t = "int" -> x.v # 0
      [] x.t = "bool" -> x.v
      [] OTHER -> FALSE

\* dict.get(key, default)
Get(m, k, d) == IF k \in DOMAIN m THEN m[k] ELSE d

\* the map m without the keys in S
Drop(m, S) == [k \in (DOMAIN m) \ S |-> m[k]]

\* files: what Path.exists / read_text / json.loads / write_text make of them
\* exists() is False
FileMissing == [kind |-> "missing"]

\* read_text raises OSError, write_text succeeds (a file without read permission)
FileUnreadable == [kind |-> "unreadable"]

\* read_text and write_text raise OSError (a directory at the path, a file
\* without any permission)
FileBlocked == [kind |-> "blocked"]

\* read_text raises UnicodeDecodeError: the bytes are not UTF-8
FileUndecodable == [kind |-> "undecodable"]

\* json.loads raises JSONDecodeError
FileBadJson == [kind |-> "badjson"]

\* json.loads returns doc
FileJson(doc) == [kind |-> "json", doc |-> doc]

\* Path.read_text(encoding="utf-8") raises an exception that the loaders'
\* `except (json.JSONDecodeError, OSError)` does not catch
ReadEscapes(file) == file.kind = "undecodable"

\* Path.write_text raises OSError
WriteRaises(file) == file.kind = "blocked"

\* the file after Path.write_text(json.dumps(doc))
WriteText(file, doc) == IF WriteRaises(file) THEN file ELSE FileJson(doc)

(***************************************************************************)
(* Qt widget setters                                                       *)
(***************************************************************************)
\* QComboBox.setCurrentText on a non-editable box: selects the item with
\* that text, and leaves the selection alone when no item has it
setCurrentText(items, current, text) == IF text \in items THEN text ELSE current

\* QSlider.setValue / QSpinBox.setValue: clamps to the range
setValue(lo, hi, v) == IF v < lo THEN lo ELSE IF v > hi THEN hi ELSE v

FpsItems == {"24 FPS", "30 FPS", "60 FPS", "90 FPS", "120 FPS"}

ResolutionItems == {"1280 x 720", "1920 x 1080", "2560 x 1440", "3840 x 2160 (4K)"}

ArucoItems == {"DICT_4X4_50", "DICT_4X4_100", "DICT_5X5_50", "DICT_6X6_100", "DICT_7X7_250"}

AiResolutionItems == {"640 x 360", "1280 x 720", "1920 x 1080"}

SliderMax == 100

BlackLevelMax == 255

RoiMax == 10000

KeyframeMax == 600

AiRateMax == 120

PortMax == 65535

(***************************************************************************)
(* VpuPanel: defaults, widgets, load / collect                             *)
(***************************************************************************)
Indices == 0..(NumCameras - 1)

CameraLabels == <<"Camera 1", "Camera 2", "Camera 3", "Camera 4",
                  "Camera 5", "Camera 6", "Camera 7", "Camera 8">>

\* f"Camera {index}" for index in range(1, 9), as a list indexed from 0
DefaultNames == [i \in Indices |-> CameraLabels[i + 1]]

\* VpuPanel._default_settings(), flattened
Vpu_default_settings ==
    [k \in {"enabled", "exposure.auto", "gain.auto", "white_balance.auto",
            "aruco.enabled", "advanced.ai_cv.overlay"} |-> TRUE]
    @@ ("advanced.sensor.roi_enabled" :> FALSE)
    @@ ("fps" :> "30 FPS")
    @@ ("resolution" :> "1920 x 1080")
    @@ [k \in {"exposure.value", "gain.value", "white_balance.value"} |-> 40]
    @@ ("aruco.dictionary" :> "DICT_4X4_50")
    @@ ("advanced.sensor.roi.x" :> 0)
    @@ ("advanced.sensor.roi.y" :> 0)
    @@ ("advanced.sensor.roi.width" :> 1920)
    @@ ("advanced.sensor.roi.height" :> 1080)
    @@ ("advanced.sensor.black_level" :> 16)
    @@ ("advanced.encoder.keyframe_interval" :> 30)
    @@ ("advanced.ai_cv.input_resolution" :> "1280 x 720")
    @@ ("advanced.ai_cv.processing_rate" :> 1)
    @@ ("advanced.network.destination_ip" :> "192.168.1.100")
    @@ ("advanced.network.base_port" :> 5000)

\* The settings widgets as _build_settings_card leaves them before it calls
\* _apply_loaded_settings: toggles checked, combo boxes on their first item,
\* sliders at 40 (black level 16), spin boxes at the low end of their range,
\* the destination line edit empty.
Vpu_build_settings_card ==
    [enabled |-> TRUE, fps |-> "24 FPS", resolution |-> "1280 x 720",
     exposure |-> 40, exposure_auto |-> TRUE,
     gain |-> 40, gain_auto |-> TRUE,
     wb |-> 40, wb_auto |-> TRUE,
     aruco |-> TRUE, aruco_dict |-> "DICT_4X4_50",
     roi_enabled |-> TRUE, roi_x |-> 0, roi_y |-> 0, roi_width |-> 1, roi_height |-> 1,
     black_level |-> 16, keyframe_interval |-> 1,
     ai_input_resolution |-> "640 x 360", ai_processing_rate |-> 1, ai_overlay |-> TRUE,
     destination_ip |-> "", base_port |-> 1]

\* VpuPanel._camera_key(index): the key "camera_<index + 1>", kept as the number
Vpu_camera_key(index) == index + 1

\* VpuPanel._load_settings(): the parsed document, {} when the file is
\* missing, unreadable or not JSON; a document of any type is returned as is
Vpu_load_settings(file) ==
    IF file.kind = "missing" THEN JObj(EmptyMap)
    ELSE IF file.kind = "json" THEN file.doc
    ELSE JObj(EmptyMap)

\* the widget part of _apply_loaded_settings (lines 635-704): s is the
\* settings dict, w the widgets before the call
Vpu_loaded_widgets(s, w) ==
    [enabled |-> Get(s, "enabled", TRUE),
     fps |-> setCurrentText(FpsItems, w.fps, Get(s, "fps", w.fps)),
     resolution |-> setCurrentText(ResolutionItems, w.resolution,
                                   Get(s, "resolution", w.resolution)),
     exposure |-> setValue(0, SliderMax, Get(s, "exposure.value", w.exposure)),
     exposure_auto |-> Get(s, "exposure.auto", TRUE),
     gain |-> setValue(0, SliderMax, Get(s, "gain.value", w.gain)),
     gain_auto |-> Get(s, "gain.auto", TRUE),
     wb |-> setValue(0, SliderMax, Get(s, "white_balance.value", w.wb)),
     wb_auto |-> Get(s, "white_balance.auto", TRUE),
     aruco |-> Get(s, "aruco.enabled", TRUE),
     aruco_dict |-> setCurrentText(ArucoItems, w.aruco_dict,
                                   Get(s, "aruco.dictionary", w.aruco_dict)),
     roi_enabled |-> Get(s, "advanced.sensor.roi_enabled", FALSE),
     roi_x |-> setValue(0, RoiMax, Get(s, "advanced.sensor.roi.x", w.roi_x)),
     roi_y |-> setValue(0, RoiMax, Get(s, "advanced.sensor.roi.y", w.roi_y)),
     roi_width |-> setValue(1, RoiMax, Get(s, "advanced.sensor.roi.width", w.roi_width)),
     roi_height |-> setValue(1, RoiMax, Get(s, "advanced.sensor.roi.height", w.roi_height)),
     black_level |-> setValue(0, BlackLevelMax,
                              Get(s, "advanced.sensor.black_level", w.black_level)),
     keyframe_interval |-> setValue(1, KeyframeMax,
                              Get(s, "advanced.encoder.keyframe_interval", w.keyframe_interval)),
     ai_input_resolution |-> setCurrentText(AiResolutionItems, w.ai_input_resolution,
                              Get(s, "advanced.ai_cv.input_resolution", w.ai_input_resolution)),
     ai_processing_rate |-> setValue(1, AiRateMax,
                              Get(s, "advanced.ai_cv.processing_rate", w.ai_processing_rate)),
     ai_overlay |-> Get(s, "advanced.ai_cv.overlay", TRUE),
     destination_ip |-> Get(s, "advanced.network.destination_ip", w.destination_ip),
     base_port |-> setValue(1, PortMax, Get(s, "advanced.network.base_port", w.base_port))]

\* the name part of _apply_loaded_settings (lines 626-634)
Vpu_loaded_name(s, P) ==
    LET name == Get(s, "name", "")
        i == P.cur
    IN  IF name # ""
        THEN [P EXCEPT !.names[i] = name, !.label = name, !.buttons[i] = name]
        ELSE P

\* _apply_loaded_settings without the fallback of line 623: a camera with
\* no stored entry leaves the widgets as they are
Vpu_apply_loaded_settings_no_fallback(P) ==
    IF ~IsDict(P.settings) THEN [P EXCEPT !.raised = TRUE]
    ELSE
      LET settings == Get(P.settings.m, Vpu_camera_key(P.cur), JObj(EmptyMap))
      IN  IF ~Truthy(settings) THEN P
          ELSE IF ~IsDict(settings) THEN [P EXCEPT !.raised = TRUE]
          ELSE [Vpu_loaded_name(settings.m, P) EXCEPT
                    !.w = Vpu_loaded_widgets(settings.m, P.w)]

\* VpuPanel._apply_loaded_settings(): P is the panel object.  A document
\* or an entry that is no dict has no .get: AttributeError, raised before
\* any widget is touched.
Vpu_apply_loaded_settings(P) ==
    IF ~IsDict(P.settings) THEN [P EXCEPT !.raised = TRUE]
    ELSE
      LET stored == Get(P.settings.m, Vpu_camera_key(P.cur), JObj(EmptyMap))
          settings == IF ~Truthy(stored) THEN JObj(Vpu_default_settings) ELSE stored
      IN  IF ~Truthy(settings) THEN P
          ELSE IF ~IsDict(settings) THEN [P EXCEPT !.raised = TRUE]
          ELSE [Vpu_loaded_name(settings.m, P) EXCEPT
                    !.w = Vpu_loaded_widgets(settings.m, P.w)]

\* VpuPanel._collect_settings(include_name)
Vpu_collect_settings(P, include_name) ==
    LET w == P.w
        base ==
          ("enabled" :> w.enabled)
          @@ ("fps" :> w.fps)
          @@ ("resolution" :> w.resolution)
          @@ ("exposure.value" :> w.exposure)
          @@ ("exposure.auto" :> w.exposure_auto)
          @@ ("gain.value" :> w.gain)
          @@ ("gain.auto" :> w.gain_auto)
          @@ ("white_balance.value" :> w.wb)
          @@ ("white_balance.auto" :> w.wb_auto)
          @@ ("aruco.enabled" :> w.aruco)
          @@ ("aruco.dictionary" :> w.aruco_dict)
          @@ ("advanced.sensor.roi_enabled" :> w.roi_enabled)
          @@ ("advanced.sensor.roi.x" :> w.roi_x)
          @@ ("advanced.sensor.roi.y" :> w.roi_y)
          @@ ("advanced.sensor.roi.width" :> w.roi_width)
          @@ ("advanced.sensor.roi.height" :> w.roi_height)
          @@ ("advanced.sensor.black_level" :> w.black_level)
          @@ ("advanced.encoder.keyframe_interval" :> w.keyframe_interval)
          @@ ("advanced.ai_cv.input_resolution" :> w.ai_input_resolution)
          @@ ("advanced.ai_cv.processing_rate" :> w.ai_processing_rate)
          @@ ("advanced.ai_cv.overlay" :> w.ai_overlay)
          @@ ("advanced.network.destination_ip" :> w.destination_ip)
          @@ ("advanced.network.base_port" :> w.base_port)
    IN  JObj(IF include_name THEN base @@ ("name" :> P.names[P.cur]) ELSE base)


\* a snapshot that is pushed like a stored entry and forgets the ROI width
Vpu_apply_settings_snapshot_no_width(s, w) ==
    Vpu_loaded_widgets(Drop(s, {"advanced.sensor.roi.width"}), w)

\* VpuPanel._apply_settings_snapshot(settings): the widgets after a preset
\* dict s is pushed into the widgets w
Vpu_apply_settings_snapshot(s, w) ==
    [enabled |-> Get(s, "enabled", TRUE),
     fps |-> setCurrentText(FpsItems, w.fps, Get(s, "fps", "30 FPS")),
     resolution |-> setCurrentText(ResolutionItems, w.resolution,
                                   Get(s, "resolution", "1920 x 1080")),
     exposure |-> setValue(0, SliderMax, Get(s, "exposure.value", w.exposure)),
     exposure_auto |-> Get(s, "exposure.auto", TRUE),
     gain |-> setValue(0, SliderMax, Get(s, "gain.value", w.gain)),
     gain_auto |-> Get(s, "gain.auto", TRUE),
     wb |-> setValue(0, SliderMax, Get(s, "white_balance.value", w.wb)),
     wb_auto |-> Get(s, "white_balance.auto", TRUE),
     aruco |-> Get(s, "aruco.enabled", TRUE),
     aruco_dict |-> setCurrentText(ArucoItems, w.aruco_dict,
                                   Get(s, "aruco.dictionary", "DICT_4X4_50")),
     roi_enabled |-> Get(s, "advanced.sensor.roi_enabled", FALSE),
     roi_x |-> setValue(0, RoiMax, Get(s, "advanced.sensor.roi.x", 0)),
     roi_y |-> setValue(0, RoiMax, Get(s, "advanced.sensor.roi.y", 0)),
     roi_width |-> setValue(1, RoiMax, Get(s, "advanced.sensor.roi.width", 1920)),
     roi_height |-> setValue(1, RoiMax, Get(s, "advanced.sensor.roi.height", 1080)),
     black_level |-> setValue(0, BlackLevelMax, Get(s, "advanced.sensor.black_level", 16)),
     keyframe_interval |-> setValue(1, KeyframeMax,
                              Get(s, "advanced.encoder.keyframe_interval", 30)),
     ai_input_resolution |-> setCurrentText(AiResolutionItems, w.ai_input_resolution,
                              Get(s, "advanced.ai_cv.input_resolution", "1280 x 720")),
     ai_processing_rate |-> setValue(1, AiRateMax, Get(s, "advanced.ai_cv.processing_rate", 1)),
     ai_overlay |-> Get(s, "advanced.ai_cv.overlay", TRUE),
     destination_ip |-> Get(s, "advanced.network.destination_ip", "192.168.1.100"),
     base_port |-> setValue(1, PortMax, Get(s, "advanced.network.base_port", 5000))]

(***************************************************************************)
(* VpuPanel: the handlers, as functions of the panel object                *)
(***************************************************************************)
\* str.strip() on the texts the user types in this model
Strip(text) ==
    CASE text = "  " -> ""
      [] text = " Bow " -> "Bow"
      [] text = " a/b " -> "a/b"
      [] OTHER -> text


\* str.replace that replaces nothing
ReplaceNothing(text) == text

\* str.replace("/", "-") on the preset names of this model
ReplaceSlash(text) == IF text = "a/b" THEN "a-b" ELSE text

\* the fields set by VpuPanel.__init__ before the cards are built
Vpu_fields(file) ==
    [alive |-> TRUE, raised |-> FALSE, cur |-> 0,
     names |-> DefaultNames, buttons |-> DefaultNames, label |-> DefaultNames[0],
     settings |-> Vpu_load_settings(file),
     w |-> Vpu_build_settings_card]

\* VpuPanel.__init__: an exception of _load_settings or of
\* _apply_loaded_settings leaves the constructor, and no panel exists
Vpu_init(file) ==
    LET P == IF ReadEscapes(file)
             THEN [Vpu_fields(file) EXCEPT !.raised = TRUE]
             ELSE Vpu_apply_loaded_settings(Vpu_fields(file))
    IN  IF P.raised THEN [P EXCEPT !.alive = FALSE] ELSE P

\* the panel before it is constructed, and after it is closed
Vpu_none == [Vpu_fields(FileMissing) EXCEPT !.alive = FALSE]

\* VpuPanel._select_camera(index)
Vpu_select_camera(P, index) ==
    Vpu_apply_loaded_settings(
        [P EXCEPT !.raised = FALSE, !.cur = index, !.label = P.names[index]])

\* VpuPanel._apply_camera_rename(index), text being the text of the line edit
Vpu_apply_camera_rename(P, index, text) ==
    LET stripped == Strip(text)
        new_name == IF stripped = "" THEN P.names[index] ELSE stripped
    IN  [P EXCEPT !.raised = FALSE,
                  !.names[index] = new_name,
                  !.buttons[index] = new_name,
                  !.label = IF index = P.cur THEN new_name ELSE @]

\* the collected settings stored under the first camera's key, whichever
\* camera is current
Vpu_store_first(P) ==
    JObj((Vpu_camera_key(0) :> Vpu_collect_settings(P, TRUE)) @@ P.settings.m)

\* the in-memory settings after _apply_settings / _persist_current_settings
\* store the collected settings under the current camera's key
Vpu_store_current(P) ==
    JObj((Vpu_camera_key(P.cur) :> Vpu_collect_settings(P, TRUE)) @@ P.settings.m)


\* an Apply that keeps nothing but the entry it stores
Vpu_apply_settings_only_current(P) ==
    [P EXCEPT !.raised = FALSE,
              !.settings = JObj(Vpu_camera_key(P.cur) :> Vpu_collect_settings(P, TRUE))]

\* VpuPanel._apply_settings(): the panel afterwards
Vpu_apply_settings(P) ==
    [P EXCEPT !.raised = FALSE, !.settings = Vpu_store_current(P)]


\* a persist that keeps nothing but the current camera's entry
Vpu_persist_only_current(P) ==
    [P EXCEPT !.settings =
        JObj(Vpu_camera_key(P.cur) :> Vpu_collect_settings(P, TRUE))]

\* VpuPanel._persist_current_settings(): the panel afterwards
Vpu_persist_current_settings(P) ==
    [P EXCEPT !.settings = Vpu_store_current(P)]

\* ApiClient.__init__
Api_init == [last_applied_vpu_config |-> JNull, last_force_idr_camera_id |-> JNull]

\* ApiClient.apply_vpu_configuration(config)
Api_apply_vpu_configuration(a, config) == [a EXCEPT !.last_applied_vpu_config = config]

\* force_idr that, like a configuration update, also replaces the last
\* applied configuration
Api_force_idr_as_config(a, camera_id) ==
    [a EXCEPT !.last_force_idr_camera_id = JInt(camera_id),
              !.last_applied_vpu_config = JNull]

\* ApiClient.force_idr(camera_id)
Api_force_idr(a, camera_id) == [a EXCEPT !.last_force_idr_camera_id = JInt(camera_id)]

(***************************************************************************)
(* What the user can do to one settings widget                             *)
(***************************************************************************)
\* a slider whose Auto toggle is checked is disabled (_bind_auto_toggle)
Vpu_widget_enabled(w, field) ==
    CASE field = "exposure" -> ~w.exposure_auto
      [] field = "gain" -> ~w.gain_auto
      [] field = "wb" -> ~w.wb_auto
      [] OTHER -> TRUE

\* the changes the user makes to single widgets in this model: one widget of
\* each kind (toggle, combo box, Auto toggle, slider, spin box, line edit)
VpuEditInputs ==
    { <<"enabled", FALSE>>, <<"fps", "60 FPS">>, <<"exposure_auto", FALSE>>,
      <<"exposure", 70>>, <<"roi_width", 640>>, <<"destination_ip", "">>,
      <<"base_port", 6000>> }

Vpu_edit(w, field, value) == [w EXCEPT ![field] = value]

(***************************************************************************)
(* The files the VPU panel can find when it starts                         *)
(***************************************************************************)
\* a complete stored entry, every value in range and none the default
AltEntry ==
    [k \in {"enabled", "exposure.auto", "gain.auto", "white_balance.auto",
            "aruco.enabled", "advanced.ai_cv.overlay"} |-> FALSE]
    @@ ("advanced.sensor.roi_enabled" :> TRUE)
    @@ ("fps" :> "90 FPS")
    @@ ("resolution" :> "3840 x 2160 (4K)")
    @@ ("exposure.value" :> 55)
    @@ ("gain.value" :> 65)
    @@ ("white_balance.value" :> 75)
    @@ ("aruco.dictionary" :> "DICT_5X5_50")
    @@ ("advanced.sensor.roi.x" :> 10)
    @@ ("advanced.sensor.roi.y" :> 20)
    @@ ("advanced.sensor.roi.width" :> 800)
    @@ ("advanced.sensor.roi.height" :> 600)
    @@ ("advanced.sensor.black_level" :> 32)
    @@ ("advanced.encoder.keyframe_interval" :> 60)
    @@ ("advanced.ai_cv.input_resolution" :> "640 x 360")
    @@ ("advanced.ai_cv.processing_rate" :> 2)
    @@ ("advanced.network.destination_ip" :> "10.0.0.9")
    @@ ("advanced.network.base_port" :> 6000)
    @@ ("name" :> "Aft")

AdvancedKeys == {k \in DOMAIN Vpu_default_settings :
                    k \notin {"enabled", "fps", "resolution", "exposure.value",
                              "exposure.auto", "gain.value", "gain.auto",
                              "white_balance.value", "white_balance.auto",
                              "aruco.enabled", "aruco.dictionary"}}

\* an entry whose values are of the right type but outside what the widgets take
OddEntry ==
    ("fps" :> "15 FPS") @@ ("exposure.value" :> 150)
    @@ ("advanced.sensor.roi.width" :> 0) @@ ("name" :> "")

\* entries 2..7 each lack keys at some nesting level
PartialFile ==
    FileJson(JObj(
        (1 :> JObj(AltEntry))
     @@ (2 :> JObj(Drop(AltEntry, {"fps"})))
     @@ (3 :> JObj(Drop(AltEntry, {"resolution", "exposure.value", "name"})))
     @@ (4 :> JObj(Drop(AltEntry, {"advanced.sensor.roi.x", "advanced.network.base_port"})))
     @@ (5 :> JObj(Drop(AltEntry, AdvancedKeys)))
     @@ (6 :> JObj("name" :> "Keel"))
     @@ (7 :> JObj(OddEntry))))

VpuFiles ==
    { FileMissing, FileUnreadable, FileBlocked, FileUndecodable, FileBadJson,
      FileJson(JArr(0)), FileJson(JStr("x")),
      FileJson(JObj(1 :> JStr("x"))),
      FileJson(JObj((2 :> JArr(2)) @@ (3 :> JNull) @@ (4 :> JObj(EmptyMap))
                    @@ (5 :> JInt(7)))),
      PartialFile,
      FileJson(JObj((1 :> JObj(Drop(AltEntry, AdvancedKeys \cup {"fps", "gain.value"})))
                    @@ (2 :> JObj(AltEntry)))) }

\* a presets directory left by an earlier session
OldPresets ==
    ("old" :> FileJson(JObj(Drop(AltEntry, AdvancedKeys \cup {"name", "fps"}))))
    @@ ("broken" :> FileBadJson)

\* a presets directory none of whose files can be read and decoded
BadPresets ==
    ("broken" :> FileBadJson) @@ ("locked" :> FileUnreadable)
    @@ ("garbled" :> FileUndecodable)

\* what the panel finds when it starts: vpu_settings.json and presets/
VpuStarts ==
    (VpuFiles \X {OldPresets})
    \cup {<<FileMissing, EmptyMap>>, <<FileMissing, BadPresets>>, <<PartialFile, BadPresets>>}

NameInputs == {"  ", " Bow "}

PresetNameInputs == {"  ", " a/b "}

\* the camera panel before it is constructed (its model follows below)
Cam_none == [alive |-> FALSE]

(***************************************************************************)
(* The VPU panel's state machine                                           *)
(***************************************************************************)
Init ==
    /\ vpu = Vpu_none
    /\ \E start \in VpuStarts : vpu_file = start[1] /\ presets = start[2]
    /\ vpu_writes = 0
    /\ preset_writes = 0
    /\ api = Api_init
    /\ cam = Cam_none
    /\ cam_file = FileMissing
    /\ cam_writes = 0
    /\ cam_found = FileMissing
    /\ op = "start"
    /\ ops = 0

CamUnchanged == UNCHANGED <<cam, cam_file, cam_writes, cam_found>>

\* the application starts: ZiMOShell builds VpuPanel(api)
VpuConstruct ==
    /\ ~vpu.alive /\ op \in {"start", "close"}
    /\ vpu' = Vpu_init(vpu_file)
    /\ op' = "construct"
    /\ UNCHANGED <<vpu_file, vpu_writes, presets, preset_writes, api, ops>>
    /\ CamUnchanged

\* a click on a camera button
VpuSelect ==
    /\ vpu.alive /\ ops < MaxOps
    /\ \E index \in Indices : vpu' = Vpu_select_camera(vpu, index)
    /\ op' = "select"
    /\ ops' = ops + 1
    /\ UNCHANGED <<vpu_file, vpu_writes, presets, preset_writes, api>>
    /\ CamUnchanged

\* the user changes one settings widget
VpuEditWidget ==
    /\ vpu.alive /\ ops < MaxOps
    /\ \E e \in VpuEditInputs :
         /\ Vpu_widget_enabled(vpu.w, e[1])
         /\ vpu.w[e[1]] # e[2]
         /\ vpu' = [vpu EXCEPT !.raised = FALSE, !.w = Vpu_edit(vpu.w, e[1], e[2])]
    /\ op' = "edit"
    /\ ops' = ops + 1
    /\ UNCHANGED <<vpu_file, vpu_writes, presets, preset_writes, api>>
    /\ CamUnchanged

\* a rename that also persists the settings file
VpuRename_persisting ==
    /\ vpu.alive /\ ops < MaxOps
    /\ \E text \in NameInputs : vpu' = Vpu_apply_camera_rename(vpu, vpu.cur, text)
    /\ vpu_file' = FileJson(vpu'.settings)
    /\ vpu_writes' = vpu_writes + 1
    /\ op' = "rename"
    /\ ops' = ops + 1
    /\ UNCHANGED <<presets, preset_writes, api>>
    /\ CamUnchanged

\* editingFinished of the name edit; the pen that shows the edit is visible
\* for the current camera only
VpuRename ==
    /\ vpu.alive /\ ops < MaxOps
    /\ \E text \in NameInputs : vpu' = Vpu_apply_camera_rename(vpu, vpu.cur, text)
    /\ op' = "rename"
    /\ ops' = ops + 1
    /\ UNCHANGED <<vpu_file, vpu_writes, presets, preset_writes, api>>
    /\ CamUnchanged

\* the Apply button: _apply_settings
VpuApply ==
    /\ vpu.alive /\ ops < MaxOps
    /\ vpu' = [Vpu_apply_settings(vpu) EXCEPT !.raised = WriteRaises(vpu_file)]
    /\ vpu_file' = WriteText(vpu_file, vpu'.settings)
    /\ vpu_writes' = IF WriteRaises(vpu_file) THEN vpu_writes ELSE vpu_writes + 1
    /\ op' = "apply"
    /\ ops' = ops + 1
    /\ UNCHANGED <<presets, preset_writes, api>>
    /\ CamUnchanged


\* _save_preset: presets/ afterwards; ok and text are the dialog's result
Vpu_save_preset(dir, P, ok, text) ==
    IF ~ok \/ Strip(text) = "" THEN dir
    ELSE (ReplaceSlash(Strip(text)) :> FileJson(Vpu_collect_settings(P, FALSE))) @@ dir

\* the "Save setup" button: _save_preset; ok and text are the dialog's result
VpuSavePreset ==
    /\ vpu.alive /\ ops < MaxOps
    /\ \E ok \in BOOLEAN, text \in PresetNameInputs :
         /\ presets' = Vpu_save_preset(presets, vpu, ok, text)
         /\ preset_writes' = IF ~ok \/ Strip(text) = "" THEN preset_writes
                              ELSE preset_writes + 1
    /\ vpu' = [vpu EXCEPT !.raised = FALSE]
    /\ op' = "save_preset"
    /\ ops' = ops + 1
    /\ UNCHANGED <<vpu_file, vpu_writes, api>>
    /\ CamUnchanged

\* _load_preset once a preset file was read and decoded: a document that is
\* no dict has no .get (AttributeError out of _apply_settings_snapshot)
Vpu_load_preset(P, doc) ==
    IF ~IsDict(doc) THEN [P EXCEPT !.raised = TRUE]
    ELSE Vpu_persist_current_settings(
             [P EXCEPT !.raised = FALSE, !.w = Vpu_apply_settings_snapshot(doc.m, P.w)])

\* the "Load preset" button: _load_preset; ok and selection are the dialog's result
VpuLoadPreset ==
    /\ vpu.alive /\ ops < MaxOps
    /\ op' = "load_preset"
    /\ ops' = ops + 1
    /\ UNCHANGED <<presets, preset_writes, api>>
    /\ CamUnchanged
    /\ IF DOMAIN presets = {}
       THEN /\ vpu' = [vpu EXCEPT !.raised = FALSE]
            /\ UNCHANGED <<vpu_file, vpu_writes>>
       ELSE \E ok \in BOOLEAN, selection \in DOMAIN presets :
            IF ~ok
            THEN /\ vpu' = [vpu EXCEPT !.raised = FALSE]
                 /\ UNCHANGED <<vpu_file, vpu_writes>>
            ELSE IF presets[selection].kind # "json"
            THEN /\ vpu' = [vpu EXCEPT !.raised = ReadEscapes(presets[selection])]
                 /\ UNCHANGED <<vpu_file, vpu_writes>>
            ELSE /\ vpu' = LET P == Vpu_load_preset(vpu, presets[selection].doc)
                            IN  [P EXCEPT !.raised = @ \/ WriteRaises(vpu_file)]
                 /\ IF vpu'.raised
                    THEN UNCHANGED <<vpu_file, vpu_writes>>
                    ELSE /\ vpu_file' = WriteText(vpu_file, vpu'.settings)
                         /\ vpu_writes' = vpu_writes + 1

\* the "Force IDR" button: _force_idr shows a message box
VpuForceIdr ==
    /\ vpu.alive
    /\ vpu' = [vpu EXCEPT !.raised = FALSE]
    /\ op' = "force_idr"
    /\ UNCHANGED <<vpu_file, vpu_writes, presets, preset_writes, api, ops>>
    /\ CamUnchanged

\* the application is closed; the files stay
VpuClose ==
    /\ vpu.alive /\ ops < MaxOps
    /\ vpu' = Vpu_none
    /\ op' = "close"
    /\ ops' = ops + 1
    /\ UNCHANGED <<vpu_file, vpu_writes, presets, preset_writes, api>>
    /\ CamUnchanged

Next ==
    \/ VpuConstruct
    \/ VpuSelect
    \/ VpuEditWidget
    \/ VpuRename
    \/ VpuApply
    \/ VpuSavePreset
    \/ VpuLoadPreset
    \/ VpuForceIdr
    \/ VpuClose

Spec == Init /\ [][Next]_vars

(***************************************************************************)
(* CameraPanel: settings, load / save                                      *)
(***************************************************************************)
\* a JSON list: its length and its items (a sequence)
JList(items) == [t |-> "arr", n |-> Len(items), items |-> items]

\* CameraPanel._default_settings(index), index in 1..8
Cam_default_settings(index) ==
    [name |-> CameraLabels[index], enabled |-> TRUE, fps |-> "24 FPS",
     resolution |-> "1280 x 720",
     exposure |-> 40, exposure_auto |-> TRUE,
     gain |-> 40, gain_auto |-> TRUE,
     white_balance |-> 40, white_balance_auto |-> TRUE,
     aruco_enabled |-> TRUE, aruco_dict |-> "DICT_4X4_50"]

\* [self._default_settings(index) for index in range(1, 9)], indexed from 0
Cam_all_defaults == [i \in Indices |-> Cam_default_settings(i + 1)]

\* a merge that takes every key of the file entry (dict.update)
Cam_merge_entry_update(current, entry) ==
    IF ~IsDict(entry) THEN current
    ELSE [key \in DOMAIN current \cup DOMAIN entry.m |->
            IF key \in DOMAIN entry.m THEN entry.m[key] ELSE current[key]]

\* the merge of one file entry into one camera's settings (lines 415-419)
Cam_merge_entry(current, entry) ==
    IF ~IsDict(entry) THEN current
    ELSE [key \in DOMAIN current |->
            IF key \in DOMAIN entry.m THEN entry.m[key] ELSE current[key]]

\* CameraPanel._load_settings_from_disk(): the in-memory settings afterwards
Cam_load_settings_from_disk(settings, file) ==
    IF file.kind = "missing" THEN settings
    ELSE IF file.kind # "json" THEN settings
    ELSE IF file.doc.t # "arr" \/ file.doc.n # NumCameras THEN settings
    ELSE [i \in Indices |-> Cam_merge_entry(settings[i], file.doc.items[i + 1])]

\* json.dumps(self._camera_settings): a list of NumCameras objects
Cam_dumps(settings) == JList([n \in 1..NumCameras |-> JObj(settings[n - 1])])

\* CameraPanel._save_settings(); X is the panel with its file,
\* [cam |-> panel object, file |-> camera_settings.json, writes |-> count]
Cam_save_settings(X) ==
    IF WriteRaises(X.file) THEN [X EXCEPT !.cam.raised = TRUE]
    ELSE [X EXCEPT !.file = WriteText(@, Cam_dumps(X.cam.settings)), !.writes = @ + 1]

\* _update_current_setting that changes the setting in memory only
Cam_update_current_setting_unsaved(X, key, value) ==
    IF X.cam.is_applying THEN X
    ELSE [X EXCEPT !.cam.settings[X.cam.cur][key] = value]

\* CameraPanel._update_current_setting(key, value); an unset
\* _is_applying_settings reads as False (getattr with default)
Cam_update_current_setting(X, key, value) ==
    IF X.cam.is_applying THEN X
    ELSE Cam_save_settings([X EXCEPT !.cam.settings[X.cam.cur][key] = value])

\* CameraPanel._bind_auto_toggle(toggle, slider, setting_key): the toggle
\* was built checked, and _sync_state(toggle.isChecked()) is called at once;
\* it is not reached when an earlier statement raised
Cam_bind_auto_toggle(X, setting_key) ==
    IF X.cam.raised THEN X ELSE Cam_update_current_setting(X, setting_key, TRUE)

\* the settings widgets as _build_settings_card builds them
Cam_build_widgets ==
    [enabled |-> TRUE, fps |-> "24 FPS", resolution |-> "1280 x 720",
     exposure |-> 40, exposure_auto |-> TRUE,
     gain |-> 40, gain_auto |-> TRUE,
     white_balance |-> 40, white_balance_auto |-> TRUE,
     aruco_enabled |-> TRUE, aruco_dict |-> "DICT_4X4_50"]

\* CameraPanel._build_settings_card(): builds the widgets and binds the
\* three Auto toggles
Cam_build_settings_card(X) ==
    Cam_bind_auto_toggle(
        Cam_bind_auto_toggle(
            Cam_bind_auto_toggle([X EXCEPT !.cam.w = Cam_build_widgets], "exposure_auto"),
            "gain_auto"),
        "white_balance_auto")

\* QSlider.setValue(int) takes a C int, and the binding raises OverflowError
\* for a Python int outside its range.  The model's C int is 16 bits wide:
\* the integers of the model checker end where the real C int ends, so a
\* value beyond the real range could not be written down
IntMax == 2^15 - 1

Overflows(v) == v > IntMax \/ v < -IntMax - 1

\* the widgets in the order _apply_settings_to_ui pushes the settings
Cam_apply_order ==
    << "enabled", "fps", "resolution", "exposure", "exposure_auto", "gain",
       "gain_auto", "white_balance", "white_balance_auto", "aruco_enabled",
       "aruco_dict" >>

\* the first slider whose setValue raises for these settings, "none" when
\* none does
Cam_apply_raises_at(s) ==
    IF Overflows(s.exposure) THEN "exposure"
    ELSE IF Overflows(s.gain) THEN "gain"
    ELSE IF Overflows(s.white_balance) THEN "white_balance"
    ELSE "none"

\* the value _apply_settings_to_ui gives a widget
Cam_pushed_value(w, s, key) ==
    CASE key = "fps" -> setCurrentText(FpsItems, w.fps, s.fps)
      [] key = "resolution" -> setCurrentText(ResolutionItems, w.resolution, s.resolution)
      [] key = "aruco_dict" -> setCurrentText(ArucoItems, w.aruco_dict, s.aruco_dict)
      [] key \in {"exposure", "gain", "white_balance"} -> setValue(0, SliderMax, s[key])
      [] OTHER -> s[key]

\* a settings widget takes a value, from the user or from the program: when
\* the value is new and the widget's signals are not blocked, its signal
\* reaches _update_current_setting(key, value)
Cam_widget_changed(X, key, value) ==
    IF X.cam.w[key] = value THEN X
    ELSE IF key \in X.cam.blocked THEN [X EXCEPT !.cam.w[key] = value]
    ELSE Cam_update_current_setting([X EXCEPT !.cam.w[key] = value], key, value)

\* one widget of _apply_settings_to_ui: blockSignals(True), the value is
\* set, blockSignals(False)
Cam_push(X, key, value) ==
    LET B == [X EXCEPT !.cam.blocked = @ \cup {key}]
    IN  [Cam_widget_changed(B, key, value) EXCEPT !.cam.blocked = @ \ {key}]

\* the body of the try of _apply_settings_to_ui from the n-th widget on;
\* settings is self._camera_settings[index], read where it is used; a
\* setValue that raises ends it, the slider's signals still blocked
RECURSIVE Cam_push_from(_, _, _)
Cam_push_from(X, index, n) ==
    IF n > Len(Cam_apply_order) THEN X
    ELSE LET key == Cam_apply_order[n]
             settings == X.cam.settings[index]
         IN  IF Cam_apply_raises_at(settings) = key
             THEN [X EXCEPT !.cam.raised = TRUE, !.cam.blocked = @ \cup {key}]
             ELSE Cam_push_from(
                      Cam_push(X, key, Cam_pushed_value(X.cam.w, settings, key)),
                      index, n + 1)

\* the settings pushed with neither blockSignals nor the guard: every
\* widget that takes a new value reports it as a user edit
RECURSIVE Cam_push_unprotected_from(_, _, _)
Cam_push_unprotected_from(X, index, n) ==
    IF n > Len(Cam_apply_order) THEN X
    ELSE LET key == Cam_apply_order[n]
             settings == X.cam.settings[index]
         IN  IF Cam_apply_raises_at(settings) = key
             THEN [X EXCEPT !.cam.raised = TRUE]
             ELSE Cam_push_unprotected_from(
                      Cam_widget_changed(X, key, Cam_pushed_value(X.cam.w, settings, key)),
                      index, n + 1)

Cam_apply_settings_to_ui_unprotected(X, index) == Cam_push_unprotected_from(X, index, 1)

\* CameraPanel._apply_settings_to_ui(index): the guard is set, the settings
\* are pushed, and the finally clause clears the guard
Cam_apply_settings_to_ui(X, index) ==
    [Cam_push_from([X EXCEPT !.cam.is_applying = TRUE], index, 1)
        EXCEPT !.cam.is_applying = FALSE]

\* the names of the cameras, read off the settings
Cam_names(settings) == [i \in Indices |-> settings[i].name]

\* CameraPanel.__init__ up to the construction of the cards (lines 21-43)
Cam_fields(file) ==
    LET settings == Cam_load_settings_from_disk(Cam_all_defaults, file)
    IN  [alive |-> TRUE, raised |-> ReadEscapes(file), cur |-> 0, is_applying |-> FALSE,
         blocked |-> {},
         settings |-> settings,
         names |-> Cam_names(settings), buttons |-> Cam_names(settings),
         label |-> settings[0].name,
         w |-> Cam_build_widgets]

\* CameraPanel.__init__: an exception of _load_settings_from_disk, of
\* _save_settings or of _apply_settings_to_ui leaves the constructor, and
\* no panel exists
Cam_init(file, writes) ==
    LET X == Cam_build_settings_card([cam |-> Cam_fields(file), file |-> file,
                                      writes |-> writes])
        A == Cam_apply_settings_to_ui(X, X.cam.cur)
    IN  IF X.cam.raised THEN [X EXCEPT !.cam.alive = FALSE]
        ELSE [A EXCEPT !.cam.alive = ~A.cam.raised]

\* _select_camera with the pushed values taken for user edits: the file is
\* written
Cam_select_camera_saving(X, index) ==
    Cam_save_settings(
        Cam_apply_settings_to_ui(
            [X EXCEPT !.cam.cur = index, !.cam.label = X.cam.names[index]], index))

\* CameraPanel._select_camera(index)
Cam_select_camera(X, index) ==
    Cam_apply_settings_to_ui(
        [X EXCEPT !.cam.cur = index, !.cam.label = X.cam.names[index]], index)

\* CameraPanel._apply_camera_rename(index), text being the text of the line edit
Cam_apply_camera_rename(X, index, text) ==
    LET stripped == Strip(text)
        new_name == IF stripped = "" THEN X.cam.names[index] ELSE stripped
    IN  Cam_save_settings(
            [X EXCEPT !.cam.names[index] = new_name,
                      !.cam.settings[index].name = new_name,
                      !.cam.buttons[index] = new_name,
                      !.cam.label = IF index = X.cam.cur THEN new_name ELSE @])


\* a reset that does not carry the camera's name over
Cam_reset_current_camera_with_name(X) ==
    LET i == X.cam.cur
    IN  Cam_save_settings(
            Cam_apply_settings_to_ui(
                [X EXCEPT !.cam.settings[i] = Cam_default_settings(i + 1)], i))

\* CameraPanel._reset_current_camera()
Cam_reset_current_camera(X) ==
    LET i == X.cam.cur
        default == [Cam_default_settings(i + 1) EXCEPT !.name = X.cam.settings[i].name]
        A == Cam_apply_settings_to_ui([X EXCEPT !.cam.settings[i] = default], i)
    IN  IF A.cam.raised THEN A ELSE Cam_save_settings(A)

\* CameraPanel._reload_settings_from_disk()
Cam_reload_settings_from_disk(X) ==
    LET settings == Cam_load_settings_from_disk(X.cam.settings, X.file)
        C == [X.cam EXCEPT !.settings = settings,
                           !.names = Cam_names(settings),
                           !.buttons = Cam_names(settings),
                           !.label = settings[X.cam.cur].name]
    IN  IF ReadEscapes(X.file) THEN [X EXCEPT !.cam.raised = TRUE]
        ELSE Cam_apply_settings_to_ui([X EXCEPT !.cam = C], C.cur)

\* a slider whose Auto toggle is checked is disabled
Cam_widget_enabled(w, key) ==
    CASE key = "exposure" -> ~w.exposure_auto
      [] key = "gain" -> ~w.gain_auto
      [] key = "white_balance" -> ~w.white_balance_auto
      [] OTHER -> TRUE

\* the changes the user makes to single widgets in this model
CamEditInputs ==
    { <<"enabled", FALSE>>, <<"fps", "60 FPS">>, <<"exposure_auto", FALSE>>,
      <<"exposure_auto", TRUE>>, <<"exposure", 70>>, <<"gain_auto", FALSE>>,
      <<"aruco_dict", "DICT_7X7_250">> }

(***************************************************************************)
(* The files the camera panel can find when it starts                      *)
(***************************************************************************)
\* a complete entry, every value in range and none the default
CamAltEntry(name) ==
    [name |-> name, enabled |-> FALSE, fps |-> "90 FPS",
     resolution |-> "3840 x 2160 (4K)",
     exposure |-> 55, exposure_auto |-> FALSE,
     gain |-> 65, gain_auto |-> FALSE,
     white_balance |-> 75, white_balance_auto |-> FALSE,
     aruco_enabled |-> FALSE, aruco_dict |-> "DICT_5X5_50"]

CamAltNames == <<"Bow", "Aft", "Port", "Keel", "Mast", "Hull", "Deck", "Rov">>

\* a well-formed file: 8 objects with the 12 keys
CamFileAlt == FileJson(JList([n \in 1..NumCameras |-> JObj(CamAltEntry(CamAltNames[n]))]))

\* well-formed, camera 1 at its defaults and the others not
CamFileFirstDefault ==
    FileJson(JList([n \in 1..NumCameras |->
        JObj(IF n = 1 THEN Cam_default_settings(1) ELSE CamAltEntry(CamAltNames[n]))]))

\* 8 entries: with keys missing, with unknown keys, not objects
CamFilePartial ==
    FileJson(JList(<<
        JObj(("exposure_auto" :> FALSE) @@ ("fps" :> "60 FPS") @@ ("zoom" :> 3)),
        JNull,
        JObj(CamAltEntry("Port")),
        JObj(EmptyMap),
        JInt(5),
        JObj(("name" :> "Hull") @@ ("gain" :> 10) @@ ("bitrate" :> 8000)),
        JStr("x"),
        JObj("white_balance_auto" :> FALSE) >>))

\* well-formed, the second camera's gain too large for a C int
CamFileOverflow ==
    FileJson(JList([n \in 1..NumCameras |->
        JObj(IF n = 2 THEN [CamAltEntry("Aft") EXCEPT !.gain = IntMax + 1]
             ELSE CamAltEntry(CamAltNames[n]))]))

CamFiles ==
    { FileMissing, FileUnreadable, FileBlocked, FileUndecodable, FileBadJson,
      CamFileOverflow,
      FileJson(JObj("name" :> "Bow")),
      FileJson(JList([n \in 1..(NumCameras - 1) |-> JObj(CamAltEntry(CamAltNames[n]))])),
      FileJson(JList([n \in 1..(NumCameras + 1) |-> JObj(CamAltEntry("Bow"))])),
      CamFileAlt, CamFileFirstDefault, CamFilePartial }

(***************************************************************************)
(* The camera panel's state machine                                        *)
(***************************************************************************)
CamInit ==
    /\ vpu = Vpu_none
    /\ vpu_file = FileMissing
    /\ vpu_writes = 0
    /\ presets = EmptyMap
    /\ preset_writes = 0
    /\ api = Api_init
    /\ cam = Cam_none
    /\ cam_file \in CamFiles
    /\ cam_writes = 0
    /\ cam_found = cam_file
    /\ op = "start"
    /\ ops = 0

VpuUnchanged == UNCHANGED <<vpu, vpu_file, vpu_writes, presets, preset_writes, api>>

\* the panel with its file as a handler finds them; no exception is pending
CamWorld ==
    [cam |-> [cam EXCEPT !.raised = FALSE], file |-> cam_file, writes |-> cam_writes]

CamBecomes(X) ==
    /\ cam' = X.cam
    /\ cam_file' = X.file
    /\ cam_writes' = X.writes

\* the panel is built: CameraModule.create_panel
CamConstruct ==
    /\ ~cam.alive /\ op \in {"start", "close"}
    /\ op' = "construct"
    /\ CamBecomes(Cam_init(cam_file, cam_writes))
    /\ UNCHANGED ops
    /\ cam_found' = cam_file
    /\ VpuUnchanged

\* a click on a camera button
CamSelect ==
    /\ cam.alive /\ ops < MaxOps
    /\ op' = "select"
    /\ \E index \in Indices : CamBecomes(Cam_select_camera(CamWorld, index))
    /\ ops' = ops + 1
    /\ UNCHANGED cam_found
    /\ VpuUnchanged

\* the user changes one settings widget
CamEditWidget ==
    /\ cam.alive /\ ops < MaxOps
    /\ op' = "edit"
    /\ \E e \in CamEditInputs :
         /\ Cam_widget_enabled(cam.w, e[1])
         /\ cam.w[e[1]] # e[2]
         /\ CamBecomes(Cam_widget_changed(CamWorld, e[1], e[2]))
    /\ ops' = ops + 1
    /\ UNCHANGED cam_found
    /\ VpuUnchanged

\* editingFinished of the name edit of the current camera
CamRename ==
    /\ cam.alive /\ ops < MaxOps
    /\ op' = "rename"
    /\ \E text \in NameInputs :
         CamBecomes(Cam_apply_camera_rename(CamWorld, cam.cur, text))
    /\ ops' = ops + 1
    /\ UNCHANGED cam_found
    /\ VpuUnchanged

\* the "Reset to defaults" button
CamReset ==
    /\ cam.alive /\ ops < MaxOps
    /\ op' = "reset"
    /\ CamBecomes(Cam_reset_current_camera(CamWorld))
    /\ ops' = ops + 1
    /\ UNCHANGED cam_found
    /\ VpuUnchanged

\* the "Load preset" button: _reload_settings_from_disk
CamReload ==
    /\ cam.alive /\ ops < MaxOps
    /\ op' = "reload"
    /\ CamBecomes(Cam_reload_settings_from_disk(CamWorld))
    /\ ops' = ops + 1
    /\ UNCHANGED cam_found
    /\ VpuUnchanged

\* the "Save setup" button: _save_settings
CamSave ==
    /\ cam.alive /\ ops < MaxOps
    /\ op' = "save"
    /\ CamBecomes(Cam_save_settings(CamWorld))
    /\ ops' = ops + 1
    /\ UNCHANGED cam_found
    /\ VpuUnchanged

\* the application is closed; the file stays
CamClose ==
    /\ cam.alive /\ ops < MaxOps
    /\ cam' = Cam_none
    /\ op' = "close"
    /\ ops' = ops + 1
    /\ UNCHANGED <<cam_file, cam_writes, cam_found>>
    /\ VpuUnchanged

CamNext ==
    \/ CamConstruct
    \/ CamSelect
    \/ CamEditWidget
    \/ CamRename
    \/ CamReset
    \/ CamReload
    \/ CamSave
    \/ CamClose

CamSpec == CamInit /\ [][CamNext]_vars

(***************************************************************************)
(* The ApiClient object under its callers, next to the VPU panel's         *)
(* "Force IDR" button                                                      *)
(***************************************************************************)
\* the configurations a caller passes to apply_vpu_configuration
ApiConfigs == {JObj(EmptyMap), JObj(Vpu_default_settings), JObj(AltEntry)}

\* a caller calls api.force_idr(camera_id)
ApiForceIdr ==
    /\ \E camera_id \in 1..NumCameras : api' = Api_force_idr(api, camera_id)
    /\ op' = "api_force_idr"
    /\ UNCHANGED <<vpu, vpu_file, vpu_writes, presets, preset_writes, ops>>
    /\ CamUnchanged

\* a caller calls api.apply_vpu_configuration(config)
ApiApplyVpuConfiguration ==
    /\ \E config \in ApiConfigs : api' = Api_apply_vpu_configuration(api, config)
    /\ op' = "api_apply"
    /\ UNCHANGED <<vpu, vpu_file, vpu_writes, presets, preset_writes, ops>>
    /\ CamUnchanged

\* the panel is built whenever it is not there
ApiPanelConstruct ==
    /\ ~vpu.alive /\ op # "construct"
    /\ vpu' = Vpu_init(vpu_file)
    /\ op' = "construct"
    /\ UNCHANGED <<vpu_file, vpu_writes, presets, preset_writes, api, ops>>
    /\ CamUnchanged

ApiNext ==
    \/ ApiPanelConstruct
    \/ VpuForceIdr
    \/ ApiForceIdr
    \/ ApiApplyVpuConfiguration

ApiSpec == Init /\ [][ApiNext]_vars

(***************************************************************************)
(* Properties: VPU panel                                                   *)
(***************************************************************************)
\* the setting each VPU widget shows (the pairs of _collect_settings)
Vpu_widget_key ==
    [enabled |-> "enabled", fps |-> "fps", resolution |-> "resolution",
     exposure |-> "exposure.value", exposure_auto |-> "exposure.auto",
     gain |-> "gain.value", gain_auto |-> "gain.auto",
     wb |-> "white_balance.value", wb_auto |-> "white_balance.auto",
     aruco |-> "aruco.enabled", aruco_dict |-> "aruco.dictionary",
     roi_enabled |-> "advanced.sensor.roi_enabled",
     roi_x |-> "advanced.sensor.roi.x", roi_y |-> "advanced.sensor.roi.y",
     roi_width |-> "advanced.sensor.roi.width",
     roi_height |-> "advanced.sensor.roi.height",
     black_level |-> "advanced.sensor.black_level",
     keyframe_interval |-> "advanced.encoder.keyframe_interval",
     ai_input_resolution |-> "advanced.ai_cv.input_resolution",
     ai_processing_rate |-> "advanced.ai_cv.processing_rate",
     ai_overlay |-> "advanced.ai_cv.overlay",
     destination_ip |-> "advanced.network.destination_ip",
     base_port |-> "advanced.network.base_port"]

\* every settings widget shows exactly the value of _default_settings()
VpuShowsDefaults ==
    \A f \in DOMAIN Vpu_widget_key : vpu.w[f] = Vpu_default_settings[Vpu_widget_key[f]]

\* the panel was just built, or a camera was just selected
VpuJustLoaded == op \in {"construct", "select"}

\* the file does not exist, or reading it raises OSError, or its text is
\* not JSON
FileUnusable(file) == file.kind \in {"missing", "unreadable", "blocked", "badjson"}

\* the panel holds the settings it loaded when it was built: nothing was
\* stored since
VpuHoldsLoaded == vpu.settings = Vpu_load_settings(vpu_file)

VpuStructurallyMalformed ==
    \/ ~IsDict(vpu.settings)
    \/ /\ Vpu_camera_key(vpu.cur) \in DOMAIN vpu.settings.m
       /\ ~IsDict(vpu.settings.m[Vpu_camera_key(vpu.cur)])

\* C2: when vpu_settings.json is JSON but its top-level value, or the entry
\* of the camera being shown, is not an object, building the panel and
\* selecting the camera still complete without an exception and the widgets
\* show the defaults.
C2_MalformedStructureShowsDefaults ==
    (VpuJustLoaded /\ vpu_file.kind = "json" /\ VpuStructurallyMalformed)
        => (vpu.alive /\ ~vpu.raised /\ VpuShowsDefaults)

\* the panel a new start builds from the file as it is now, with camera
\* `index` selected
VpuRestartedAt(index) == Vpu_select_camera(Vpu_init(vpu_file), index)

\* C4: after Apply has written the file, a new panel built from the written
\* file shows, once the same camera is selected, the same value in every
\* settings widget and the same name for that camera.
C4_ApplyRoundTrips ==
    (op = "apply" /\ ~vpu.raised) =>
        LET P == VpuRestartedAt(vpu.cur)
        IN  /\ P.alive /\ ~P.raised
            /\ P.w = vpu.w
            /\ P.names[vpu.cur] = vpu.names[vpu.cur]
            /\ P.label = vpu.names[vpu.cur]

\* C4's case: Apply on the second camera, whose widgets were edited and
\* whose name is not the default
C4_Witness ==
    /\ op = "apply" /\ ~vpu.raised /\ vpu.cur = 1
    /\ vpu.w.fps = "60 FPS" /\ ~vpu.w.enabled
    /\ vpu.names[1] = "Aft"

\* the stored entry the widgets were just loaded from
VpuShownEntry == vpu.settings.m[Vpu_camera_key(vpu.cur)]

\* C6: when the stored entry of the camera being shown is a non-empty
\* object that lacks a key, the widget of that key shows the value of
\* _default_settings(), whatever it showed before.
C6_MissingKeysShowDefaults ==
    (/\ VpuJustLoaded /\ vpu.alive /\ ~vpu.raised
     /\ Vpu_camera_key(vpu.cur) \in DOMAIN vpu.settings.m
     /\ IsDict(VpuShownEntry) /\ Truthy(VpuShownEntry))
        => \A f \in DOMAIN Vpu_widget_key :
              Vpu_widget_key[f] \notin DOMAIN VpuShownEntry.m
                  => vpu.w[f] = Vpu_default_settings[Vpu_widget_key[f]]

\* a step that writes vpu_settings.json
VpuFileWritten == vpu_writes' # vpu_writes \/ vpu_file' # vpu_file

\* C8 (as claimed): vpu_settings.json is written only by Apply.
C8_WrittenOnlyByApply == [][VpuFileWritten => op' = "apply"]_vars

\* C8 (amended): vpu_settings.json is written only by Apply and by a
\* successful Load preset; building the panel, selecting or renaming a
\* camera, changing a widget, saving a preset and Force IDR never write it.
C8_WrittenOnlyByApplyOrLoadPreset ==
    [][VpuFileWritten => op' \in {"apply", "load_preset"}]_vars

\* C8's case: the only operation so far was Load preset, and the file was
\* written
C8_Witness == op = "load_preset" /\ ops = 1 /\ vpu_writes = 1

\* C10: after Apply, api.last_applied_vpu_config is the configuration that
\* was collected from the widgets and stored for the current camera.
C10_ApplyReachesApiClient ==
    op = "apply" => api.last_applied_vpu_config = VpuShownEntry

\* the widget state a settings object records
VpuWidgetsOf(doc) == [f \in DOMAIN Vpu_widget_key |-> doc.m[Vpu_widget_key[f]]]

\* the presets this panel's "Save setup" has written
VpuSavedPresets == DOMAIN presets \ (DOMAIN OldPresets \cup DOMAIN BadPresets)

\* C12: a preset saved by the panel records the widget state it was saved
\* from, and loading it later, whatever the widgets show by then and
\* whichever camera is current, sets every settings widget back to that
\* state.
C12_PresetRoundTrips ==
    vpu.alive =>
        /\ VpuWidgetsOf(Vpu_collect_settings(vpu, FALSE)) = vpu.w
        /\ "name" \notin DOMAIN Vpu_collect_settings(vpu, FALSE).m
        /\ \A n \in VpuSavedPresets :
              /\ presets[n].kind = "json"
              /\ ~Vpu_load_preset(vpu, presets[n].doc).raised
              /\ Vpu_load_preset(vpu, presets[n].doc).w = VpuWidgetsOf(presets[n].doc)

\* C12's case: a preset was saved, a widget was changed, and the preset
\* was loaded on another widget state: the widgets are back
C12_Witness ==
    /\ op = "load_preset" /\ ops = 3 /\ ~vpu.raised
    /\ preset_writes = 1 /\ vpu_writes = 1
    /\ VpuSavedPresets # {}
    /\ \A n \in VpuSavedPresets : vpu.w = VpuWidgetsOf(presets[n].doc)
    /\ vpu.w.roi_width # 640 /\ vpu.w.fps # "60 FPS" /\ vpu.w.exposure # 70

\* no file of presets/ can be read and decoded
VpuNoPresetLoads ==
    DOMAIN presets # {} /\ \A n \in DOMAIN presets : presets[n].kind # "json"

\* C13: when reading or decoding the chosen preset file fails, _load_preset
\* raises nothing and leaves the settings widgets, _camera_settings and
\* vpu_settings.json as they were.
C13_FailedPresetLoadChangesNothing ==
    [][(op' = "load_preset" /\ VpuNoPresetLoads)
          => /\ ~vpu'.raised
             /\ vpu'.w = vpu.w /\ vpu'.settings = vpu.settings
             /\ vpu_file' = vpu_file /\ vpu_writes' = vpu_writes]_vars

\* the panel with other values in its settings widgets: those of AltEntry
VpuWithOtherWidgets == [vpu EXCEPT !.w = VpuWidgetsOf(JObj(AltEntry))]

\* C15: selecting a camera leaves _camera_settings and vpu_settings.json as
\* they were; what the widgets show afterwards does not depend on what they
\* showed before (edits that were not applied are discarded); and for a
\* camera with no stored entry, or an empty one, every widget shows the
\* value of _default_settings().
C15_SelectDiscardsEditsAndKeepsSettings ==
    [][op' = "select" =>
          LET key == Vpu_camera_key(vpu'.cur)
          IN  /\ vpu'.settings = vpu.settings
              /\ vpu_file' = vpu_file /\ vpu_writes' = vpu_writes
              /\ vpu'.w = Vpu_select_camera(VpuWithOtherWidgets, vpu'.cur).w
              /\ (key \notin DOMAIN vpu.settings.m \/ vpu.settings.m[key] = JObj(EmptyMap))
                    => \A f \in DOMAIN Vpu_widget_key :
                          vpu'.w[f] = Vpu_default_settings[Vpu_widget_key[f]]]_vars

\* the keys of a stored entry that records every widget and the name
VpuEntryKeys == {Vpu_widget_key[f] : f \in DOMAIN Vpu_widget_key} \cup {"name"}

\* this step loaded a preset and persisted the result
VpuPresetLoaded == op' = "load_preset" /\ vpu_writes' # vpu_writes

\* C16: a successful Load preset changes only the stored entry of the
\* current camera, which becomes what the widgets show once the preset is
\* applied, together with the camera's name; the names of the cameras and
\* the entries of all other cameras stay as they were, and the file holds
\* the result.
C16_LoadPresetChangesOnlyCurrentEntry ==
    [][VpuPresetLoaded =>
          LET key == Vpu_camera_key(vpu.cur)
              entry == vpu'.settings.m[key]
          IN  /\ vpu'.cur = vpu.cur
              /\ vpu'.names = vpu.names /\ vpu'.buttons = vpu.buttons
              /\ vpu'.label = vpu.label
              /\ \E n \in DOMAIN presets :
                    /\ presets[n].kind = "json"
                    /\ vpu'.w = Vpu_apply_settings_snapshot(presets[n].doc.m, vpu.w)
              /\ DOMAIN entry.m = VpuEntryKeys
              /\ VpuWidgetsOf(entry) = vpu'.w
              /\ entry.m["name"] = vpu.names[vpu.cur]
              /\ DOMAIN vpu'.settings.m = DOMAIN vpu.settings.m \cup {key}
              /\ \A k \in DOMAIN vpu.settings.m \ {key} :
                    vpu'.settings.m[k] = vpu.settings.m[k]
              /\ vpu_file' = FileJson(vpu'.settings)]_vars

\* C16's case: a preset was loaded for the fourth camera, renamed but not
\* applied, next to the stored entries of other cameras
C16_Witness ==
    /\ op = "load_preset" /\ vpu_writes = 1 /\ ~vpu.raised
    /\ vpu.cur = 3 /\ vpu.names[3] = "Bow"
    /\ vpu.settings.m[4].m["name"] = "Bow"
    /\ {2, 7} \subseteq DOMAIN vpu.settings.m

\* C17: Save preset writes nothing when the dialog is cancelled or the name
\* is blank; otherwise it writes exactly one file, named by the stripped
\* name with "/" replaced by "-" (" a/b " gives a-b.json), holding what the
\* widgets show and no "name" key, and leaves every other preset as it was;
\* in either case _camera_settings, the widgets and vpu_settings.json are
\* unchanged.
C17_SavePresetWritesOneFile ==
    /\ [](vpu.alive =>
            \A ok \in BOOLEAN, text \in PresetNameInputs :
               LET dir == Vpu_save_preset(presets, vpu, ok, text)
               IN  IF ~ok \/ text = "  " THEN dir = presets
                   ELSE /\ DOMAIN dir = DOMAIN presets \cup {"a-b"}
                        /\ \A n \in DOMAIN presets \ {"a-b"} : dir[n] = presets[n]
                        /\ dir["a-b"].kind = "json"
                        /\ DOMAIN dir["a-b"].doc.m = VpuEntryKeys \ {"name"}
                        /\ VpuWidgetsOf(dir["a-b"].doc) = vpu.w)
    /\ [][op' = "save_preset" =>
            /\ vpu'.settings = vpu.settings /\ vpu'.w = vpu.w
            /\ vpu'.names = vpu.names
            /\ vpu_file' = vpu_file /\ vpu_writes' = vpu_writes
            /\ preset_writes' \in {preset_writes, preset_writes + 1}
            /\ (preset_writes' = preset_writes) => (presets' = presets)]_vars

\* C17's case: a preset was saved from edited widgets next to older presets
C17_Witness ==
    /\ op = "save_preset" /\ preset_writes = 1
    /\ vpu.w.fps = "60 FPS"
    /\ DOMAIN presets = {"a-b", "old", "broken"}
    /\ presets["a-b"].doc.m["fps"] = "60 FPS"

\* C18: after Apply the entry stored for the current camera records what
\* the widgets show and the camera's name, and the entries of every other
\* camera key are as they were, in memory and in the written file.
C18_ApplyChangesOnlyCurrentEntry ==
    [][op' = "apply" =>
          LET key == Vpu_camera_key(vpu.cur)
              entry == vpu'.settings.m[key]
              others == DOMAIN vpu.settings.m \ {key}
          IN  /\ vpu'.cur = vpu.cur /\ vpu'.w = vpu.w /\ vpu'.names = vpu.names
              /\ DOMAIN entry.m = VpuEntryKeys
              /\ VpuWidgetsOf(entry) = vpu.w
              /\ entry.m["name"] = vpu.names[vpu.cur]
              /\ DOMAIN vpu'.settings.m = others \cup {key}
              /\ \A k \in others : vpu'.settings.m[k] = vpu.settings.m[k]
              /\ ~vpu'.raised =>
                    /\ vpu_file' = FileJson(vpu'.settings)
                    /\ vpu_file.kind = "json" =>
                          /\ DOMAIN vpu_file'.doc.m = DOMAIN vpu_file.doc.m \cup {key}
                          /\ \A k \in DOMAIN vpu_file.doc.m \ {key} :
                                vpu_file'.doc.m[k] = vpu_file.doc.m[k]]_vars

\* C18's case: Apply for the fourth camera, renamed, next to the stored
\* entries of other cameras
C18_Witness ==
    /\ op = "apply" /\ vpu_writes = 1 /\ ~vpu.raised
    /\ vpu.cur = 3 /\ vpu.names[3] = "Bow"
    /\ vpu.settings.m[4].m["name"] = "Bow"
    /\ {2, 7} \subseteq DOMAIN vpu.settings.m
    /\ vpu_file = FileJson(vpu.settings)

\* the entry of vpu_settings.json for camera i was saved with Apply: it is
\* an object holding every key
VpuFileHasApplied(i) ==
    /\ vpu_file.kind = "json" /\ IsDict(vpu_file.doc)
    /\ Vpu_camera_key(i) \in DOMAIN vpu_file.doc.m
    /\ IsDict(vpu_file.doc.m[Vpu_camera_key(i)])
    /\ DOMAIN vpu_file.doc.m[Vpu_camera_key(i)].m = VpuEntryKeys

\* C19: in a panel that was just built, every camera whose name was saved
\* with Apply has that name in _camera_names and on its button in the
\* selection list, without being selected first.
C19_SavedNamesShownAtStart ==
    (op = "construct" /\ vpu.alive) =>
        \A i \in Indices :
            VpuFileHasApplied(i) =>
                /\ vpu.names[i] = vpu_file.doc.m[Vpu_camera_key(i)].m["name"]
                /\ vpu.buttons[i] = vpu_file.doc.m[Vpu_camera_key(i)].m["name"]

\* the current camera was just renamed to "Bow"
VpuJustRenamed == op = "rename" /\ vpu.alive /\ vpu.names[vpu.cur] = "Bow"

\* C20: once the current camera is renamed to "Bow", selecting any camera,
\* and selecting the renamed camera again after that, leaves its name
\* "Bow" in _camera_names, on its button and, when it is current, in the
\* header label.
C20_RenameSurvivesSelections ==
    VpuJustRenamed =>
        \A j \in Indices :
            LET i == vpu.cur
                away == Vpu_select_camera(vpu, j)
                back == Vpu_select_camera(away, i)
            IN  /\ away.names[i] = "Bow" /\ away.buttons[i] = "Bow"
                /\ back.names[i] = "Bow" /\ back.buttons[i] = "Bow"
                /\ back.label = "Bow"

\* C11: ApiClient.force_idr(id) sets last_force_idr_camera_id to id and
\* leaves last_applied_vpu_config as it was; apply_vpu_configuration leaves
\* last_force_idr_camera_id as it was; the panel's Force IDR button leaves
\* _camera_settings, vpu_settings.json and the presets as they were.
C11_ForceIdrIsNotPersisted ==
    [][/\ op' = "api_force_idr" =>
            \E id \in 1..NumCameras :
                api' = [api EXCEPT !.last_force_idr_camera_id = JInt(id)]
       /\ op' = "api_apply" =>
            \E config \in ApiConfigs :
                api' = [api EXCEPT !.last_applied_vpu_config = config]
       /\ op' = "force_idr" =>
            /\ vpu'.settings = vpu.settings
            /\ vpu_file' = vpu_file /\ vpu_writes' = vpu_writes
            /\ presets' = presets]_vars

\* C11's case: force_idr was called on a client that holds an applied
\* configuration, next to a panel that was built
C11_Witness ==
    /\ op = "api_force_idr"
    /\ api.last_applied_vpu_config = JObj(AltEntry)
    /\ api.last_force_idr_camera_id = JInt(NumCameras)
    /\ vpu.alive

(***************************************************************************)
(* Properties: camera panel                                                *)
(***************************************************************************)
\* a JSON document that is a list of NumCameras items
CamFileIsList(file) ==
    file.kind = "json" /\ file.doc.t = "arr" /\ file.doc.n = NumCameras

\* the file cannot be used: missing, unreadable (OSError), not JSON, not a
\* list, or a list that does not have NumCameras items
CamFileUnusable(file) ==
    \/ FileUnusable(file)
    \/ file.kind = "json" /\ ~CamFileIsList(file)

\* the 12 keys of a camera's settings
CamKeys == DOMAIN Cam_default_settings(1)

\* a list of NumCameras objects, each with exactly the 12 keys
CamFileWellFormed(file) ==
    /\ CamFileIsList(file)
    /\ \A n \in 1..NumCameras :
          IsDict(file.doc.items[n]) /\ DOMAIN file.doc.items[n].m = CamKeys

\* C3: when camera_settings.json cannot be used, building the panel raises
\* no error and the settings of every camera i equal _default_settings(i).
C3_UnusableFileGivesDefaults ==
    (op = "construct" /\ CamFileUnusable(cam_found))
        => (cam.alive /\ \A i \in Indices : cam.settings[i] = Cam_default_settings(i + 1))

\* C5: building the panel from a well-formed file gives every camera the
\* file's value for every key, and leaves the file's content as it was.
C5_WellFormedFileRoundTrips ==
    (op = "construct" /\ CamFileWellFormed(cam_found))
        => /\ \A i \in Indices : \A key \in CamKeys :
                  cam.settings[i][key] = cam_found.doc.items[i + 1].m[key]
           /\ cam_file = cam_found

\* C7: building the panel from a list of 8 entries gives every camera its
\* defaults overridden key by key by its entry: absent keys keep the
\* default, unknown keys are ignored, an entry that is no object leaves
\* the camera at its defaults.
C7_LoadOverridesDefaultsKeyByKey ==
    (op = "construct" /\ CamFileIsList(cam_found))
        => \A i \in Indices :
              LET entry == cam_found.doc.items[i + 1]
              IN  /\ DOMAIN cam.settings[i] = CamKeys
                  /\ \A key \in CamKeys :
                        cam.settings[i][key] =
                            IF IsDict(entry) /\ key \in DOMAIN entry.m
                            THEN entry.m[key]
                            ELSE Cam_default_settings(i + 1)[key]

\* a step that writes camera_settings.json
CamFileWritten == cam_writes' # cam_writes \/ cam_file' # cam_file

\* C9 (as claimed): camera_settings.json is written only by "Save setup".
C9_WrittenOnlyBySave == [][CamFileWritten => op' = "save"]_vars

\* C9 (amended): camera_settings.json is written only by "Save setup", by a
\* change of a settings widget, by a rename, by "Reset to defaults" and by
\* building the panel; selecting a camera and reloading never write it.
C9_WrittenOnlyBySavingOperations ==
    [][CamFileWritten => op' \in {"save", "edit", "rename", "reset", "construct"}]_vars

\* C9's case: the only operation since the panel was built was a widget
\* change, and it wrote the file
C9_Witness == op = "edit" /\ ops = 1 /\ cam_writes = 4

\* C14: after "Reset to defaults" every setting of the current camera but
\* its name equals _default_settings, its name and the settings of the
\* other cameras are as before, the widgets show the reset values, and
\* camera_settings.json holds the result.
C14_ResetRestoresCurrentCamera ==
    [][op' = "reset" =>
          LET i == cam.cur
          IN  /\ cam'.cur = i /\ cam'.names = cam.names
              /\ \A key \in CamKeys \ {"name"} :
                    cam'.settings[i][key] = Cam_default_settings(i + 1)[key]
              /\ cam'.settings[i].name = cam.settings[i].name
              /\ \A j \in Indices \ {i} : cam'.settings[j] = cam.settings[j]
              /\ \A f \in DOMAIN cam'.w : cam'.w[f] = cam'.settings[i][f]
              /\ cam_file' = FileJson(Cam_dumps(cam'.settings))
              /\ cam_writes' = cam_writes + 1]_vars

\* C14's case: the third camera, renamed and with no setting at its
\* default in the file, was reset
C14_Witness ==
    /\ op = "reset" /\ cam.cur = 2
    /\ cam_found = CamFileAlt
    /\ cam.settings[2].name = "Port" /\ cam.settings[2].fps = "24 FPS"
    /\ cam.w.exposure = 40 /\ cam.w.exposure_auto

\* C21: once the panel is built, after every user operation (widget
\* change, rename, reset, reload, camera selection, save) the content of
\* camera_settings.json is the in-memory _camera_settings.
C21_FileEqualsMemory ==
    cam.alive => cam_file = FileJson(Cam_dumps(cam.settings))

\* C21's case: the second camera, which the file found at the start gave
\* no object, was selected and its frame rate changed
C21_Witness ==
    /\ op = "edit" /\ cam.alive /\ cam.cur = 1
    /\ cam_found = CamFilePartial
    /\ cam.settings[1].fps = "60 FPS"
    /\ cam_file.doc.items[2].m.fps = "60 FPS"

\* files a reload is tried on: entries with missing and unknown keys and
\* entries that are no objects; no list; a list of too many entries
CamReloadedFiles ==
    { CamFilePartial, FileJson(JObj("name" :> "Bow")),
      FileJson(JList([n \in 1..(NumCameras + 1) |-> JObj(CamAltEntry("Bow"))])) }

\* the panel object C has NumCameras entries with the keys of
\* _default_settings each, and its names are the names in the entries
CamShapeHolds(C) ==
    /\ DOMAIN C.settings = Indices
    /\ DOMAIN C.names = Indices
    /\ \A i \in Indices :
          /\ DOMAIN C.settings[i] = CamKeys
          /\ C.names[i] = C.settings[i].name

\* C22: whenever the panel exists, _camera_settings has 8 entries with
\* exactly the 12 keys of _default_settings each and _camera_names[i] is
\* _camera_settings[i]["name"]; a reload keeps this whatever file it finds.
C22_ShapeIsKept ==
    cam.alive =>
        /\ CamShapeHolds(cam)
        /\ \A file \in CamReloadedFiles :
              CamShapeHolds(Cam_reload_settings_from_disk(
                                [CamWorld EXCEPT !.file = file]).cam)

\* C22's case: the panel was built from the file with missing keys,
\* unknown keys and entries that are no objects, the sixth camera was
\* selected and renamed, and the settings were reloaded
C22_Witness ==
    /\ op = "reload" /\ cam.alive /\ cam.cur = 5
    /\ cam_found = CamFilePartial
    /\ cam.names[5] = "Bow" /\ cam.settings[5].gain = 10

\* C23: pushing stored settings into the widgets is no user edit:
\* _apply_settings_to_ui, called in any state for the current camera,
\* changes no entry of _camera_settings, does not write
\* camera_settings.json and leaves _is_applying_settings False, also when
\* a setValue raised; and so does every selection of a camera.
C23_PushIsNoEdit ==
    /\ [](cam.alive =>
            LET A == Cam_apply_settings_to_ui(CamWorld, cam.cur)
            IN  /\ A.cam.settings = cam.settings
                /\ A.file = cam_file /\ A.writes = cam_writes
                /\ ~A.cam.is_applying)
    /\ [][op' = "select" =>
              /\ cam'.settings = cam.settings
              /\ cam_file' = cam_file /\ cam_writes' = cam_writes
              /\ ~cam'.is_applying]_vars

\* C23's case: the second camera, whose gain in the file is too large for
\* the slider, was selected: the widgets before the gain slider took the
\* camera's values, setValue raised, and the guard is cleared
C23_Witness ==
    /\ op = "select" /\ cam.alive /\ cam.raised /\ cam.cur = 1
    /\ cam_found = CamFileOverflow
    /\ cam.w.exposure = 55 /\ "gain" \in cam.blocked
    /\ ~cam.is_applying

====
